---- MODULE Spec2Model ----
(***************************************************************************)
(* dynamodb_data: the codec between serde_json::Value (the Generic Value)  *)
(* and rusoto_dynamodb::AttributeValue (the Attribute Value), src/lib.rs.  *)
(*                                                                         *)
(* Text (String, the Number slot's text) is a sequence of code points;     *)
(* bytes (Binary) are a sequence of byte values.  Option<T> is a sequence  *)
(* of length at most one: None is << >>, Some(x) is <<x>>.  A panic        *)
(* (expect on None / Err, panic!()) is the result Panic; an Err(..) of a   *)
(* Result is the result SerdeErr.                                          *)
(***************************************************************************)
EXTENDS Integers, Sequences, FiniteSets, TLC

\* ------------------------------------------------------------------ bounds
MaxNodes == 3      \* nodes (scalars and containers) of an input Generic Value
MaxCalls == 4      \* calls chained on one input
MaxSlots == 2      \* slots populated at once in an externally supplied AttributeValue
MaxPairs == 2      \* `k => v` pairs given to fields!

\* ------------------------------------------------------------ Option<T>
None == << >>
Some(x) == <<x>>
is_some(o) == Len(o) = 1
unwrap(o) == o[1]

\* --------------------------------------------------------------- results
Panic == [t |-> "Panic"]
ParseErr == [t |-> "ParseErr"]
SerdeErr == [kind |-> "err"]
Aborted == [kind |-> "panic"]
Json(v) == [kind |-> "json", val |-> v]
Attr(av) == [kind |-> "attr", val |-> av]
FieldMap(m) == [kind |-> "fields", val |-> m]
Pairs(ps) == [kind |-> "pairs", val |-> ps]
Unserializable == [kind |-> "unserializable"]

\* -------------------------------------------------- serde_json::Value
Null == [t |-> "Null"]
Bool(b) == [t |-> "Bool", v |-> b]
NumInt(n) == [t |-> "Number", k |-> "Int", n |-> n]
NumFloat(neg, i, frac) == [t |-> "Number", k |-> "Float", neg |-> neg, i |-> i, frac |-> frac]
String(s) == [t |-> "String", v |-> s]
Array(xs) == [t |-> "Array", v |-> xs]
Object(kv) == [t |-> "Object", v |-> kv]

\* ------------------------------------------------------------------ text
NulText == <<0>>                 \* String::from("\0")
EmptyText == << >>               \* String::new()
TextA == <<97>>                  \* "a"
TextTest == <<116, 101, 115, 116>>   \* "test"

Digit(c) == c - 48
IsDigit(c) == c \in 48..57

RECURSIVE NatToText(_)
NatToText(n) == IF n < 10 THEN <<48 + n>> ELSE NatToText(n \div 10) \o <<48 + (n % 10)>>

RECURSIVE TextToNat(_)
TextToNat(ds) ==
    IF ds = << >> THEN 0
    ELSE 10 * TextToNat(SubSeq(ds, 1, Len(ds) - 1)) + Digit(ds[Len(ds)])

\* As format_number, with the sign of a negative number lost.
format_number_nosign(x) ==
    IF x.k = "Int"
    THEN NatToText(IF x.n < 0 THEN 0 - x.n ELSE x.n)
    ELSE NatToText(x.i) \o <<46>> \o x.frac

\* format!("{}", x) for a serde_json::Number: itoa for integers, the shortest
\* decimal with at least one fraction digit for floats.
format_number(x) ==
    IF x.k = "Int"
    THEN (IF x.n < 0 THEN <<45>> \o NatToText(0 - x.n) ELSE NatToText(x.n))
    ELSE (IF x.neg THEN <<45>> ELSE << >>) \o NatToText(x.i) \o <<46>> \o x.frac

RECURSIVE StripZeros(_)
StripZeros(ds) ==
    IF Len(ds) > 1 /\ ds[Len(ds)] = 48 THEN StripZeros(SubSeq(ds, 1, Len(ds) - 1)) ELSE ds

AllDigits(ds) == ds # << >> /\ \A i \in 1..Len(ds) : IsDigit(ds[i])

\* The integer part of a JSON number: "0" or a digit string without a leading zero.
IsIntPart(ds) == AllDigits(ds) /\ (Len(ds) = 1 \/ ds[1] # 48)

DotAt(t) == IF \E i \in 1..Len(t) : t[i] = 46
            THEN CHOOSE i \in 1..Len(t) : t[i] = 46 /\ \A j \in 1..(i - 1) : t[j] # 46
            ELSE 0

\* serde_json::from_str::<Value> on a text without whitespace, brackets, escapes
\* or exponents: a literal, a string, a number, or a syntax error.
from_str(text) ==
    LET neg == text # << >> /\ text[1] = 45
        body == IF neg THEN SubSeq(text, 2, Len(text)) ELSE text
        dot == DotAt(body)
        ip == IF dot = 0 THEN body ELSE SubSeq(body, 1, dot - 1)
        fp == IF dot = 0 THEN << >> ELSE SubSeq(body, dot + 1, Len(body))
    IN  IF text = <<110, 117, 108, 108>> THEN Null
        ELSE IF text = <<116, 114, 117, 101>> THEN Bool(TRUE)
        ELSE IF text = <<102, 97, 108, 115, 101>> THEN Bool(FALSE)
        ELSE IF Len(text) >= 2 /\ text[1] = 34 /\ text[Len(text)] = 34
                /\ \A i \in 2..(Len(text) - 1) : text[i] # 34 /\ text[i] >= 32
             THEN String(SubSeq(text, 2, Len(text) - 1))
        ELSE IF dot = 0 /\ IsIntPart(ip)
             THEN (IF neg /\ TextToNat(ip) = 0 THEN NumFloat(TRUE, 0, <<48>>)
                   ELSE NumInt(IF neg THEN 0 - TextToNat(ip) ELSE TextToNat(ip)))
        ELSE IF dot # 0 /\ IsIntPart(ip) /\ AllDigits(fp)
             THEN NumFloat(neg, TextToNat(ip), StripZeros(fp))
        ELSE ParseErr

\* String::from_utf8 on bytes drawn from {0x61, 0xFF}: 0xFF occurs in no UTF-8 text.
from_utf8(bytes) ==
    IF \A i \in 1..Len(bytes) : bytes[i] < 128 THEN [ok |-> TRUE, v |-> bytes] ELSE [ok |-> FALSE]

\* ------------------------------------------- rusoto_dynamodb::AttributeValue
Default ==
    [b |-> None, bool |-> None, bs |-> None, l |-> None, m |-> None,
     n |-> None, ns |-> None, null |-> None, s |-> None, ss |-> None]

Slots == {"b", "bool", "bs", "l", "m", "n", "ns", "null", "s", "ss"}

Populated(av) == {f \in Slots : is_some(av[f])}

\* ------------------------------------------------------------ the encoder
\* As encode_string, without the sentinel: the empty string is stored as it is.
encode_string_nosentinel(x) == [Default EXCEPT !.s = Some(x)]

\* As encode_string, with the empty string left out: no slot is populated for it.
encode_string_dropempty(x) == IF x = << >> THEN Default ELSE [Default EXCEPT !.s = Some(x)]

\* The Value::String arm: x.is_empty() is stored as "\0".
encode_string(x) ==
    IF x = << >>
    THEN [Default EXCEPT !.s = Some(NulText)]
    ELSE [Default EXCEPT !.s = Some(x)]

\* A map is a function on its key set: collecting the (k, v) pairs of a map, whose
\* keys are distinct, with from_iter gives the map of the same keys.
RECURSIVE json_to_attribute_value(_)
json_to_attribute_value(value) ==
    CASE value.t = "Array" ->
            [Default EXCEPT !.l =
                Some([i \in 1..Len(value.v) |-> json_to_attribute_value(value.v[i])])]
      [] value.t = "Object" ->
            [Default EXCEPT !.m =
                Some([k \in DOMAIN value.v |-> json_to_attribute_value(value.v[k])])]
      [] value.t = "String" -> encode_string(value.v)
      [] value.t = "Number" -> [Default EXCEPT !.n = Some(format_number(value))]
      [] value.t = "Bool" -> [Default EXCEPT !.bool = Some(value.v)]
      [] value.t = "Null" -> [Default EXCEPT !.null = Some(TRUE)]

\* ------------------------------------------------------------ the decoder
\* A panic inside a map closure unwinds through the whole call.
Collect(ys) == IF \E i \in DOMAIN ys : ys[i].t = "Panic" THEN Panic ELSE Array(ys)
CollectMap(ys) == IF \E k \in DOMAIN ys : ys[k].t = "Panic" THEN Panic ELSE Object(ys)

Utf8String(bytes) == IF from_utf8(bytes).ok THEN String(from_utf8(bytes).v) ELSE Panic
ParsedOrPanic(text) == IF from_str(text).t = "ParseErr" THEN Panic ELSE from_str(text)

\* As decode_string, with the text returned as stored.
decode_string_verbatim(text) == String(text)

\* The `s` arm: "\0" stands for the empty string.
decode_string(text) == IF text = NulText THEN String(EmptyText) ELSE String(text)

\* As decode_text_slots, with the Null marker looked at before the String slot.
decode_text_slots_nullfirst(value) ==
    IF is_some(value.null) THEN Null
    ELSE IF is_some(value.s) THEN decode_string(unwrap(value.s))
    ELSE IF is_some(value.ss)
         THEN (IF is_some(value.ns)
               THEN Array([i \in 1..Len(unwrap(value.ns)) |-> String(unwrap(value.ns)[i])])
               ELSE Panic)
    ELSE Panic

\* The last arms of attribute_value_to_json: s, null, ss, and the final panic!().
\* The ss arm maps over value.ns, and .expect() on a None panics.
decode_text_slots(value) ==
    IF is_some(value.s) THEN decode_string(unwrap(value.s))
    ELSE IF is_some(value.null) THEN Null
    ELSE IF is_some(value.ss)
         THEN (IF is_some(value.ns)
               THEN Array([i \in 1..Len(unwrap(value.ns)) |-> String(unwrap(value.ns)[i])])
               ELSE Panic)
    ELSE Panic

RECURSIVE attribute_value_to_json(_)
attribute_value_to_json(value) ==
    IF is_some(value.b) THEN Utf8String(unwrap(value.b))
    ELSE IF is_some(value.bool) THEN Bool(unwrap(value.bool))
    ELSE IF is_some(value.bs)
         THEN Collect([i \in 1..Len(unwrap(value.bs)) |-> Utf8String(unwrap(value.bs)[i])])
    ELSE IF is_some(value.l)
         THEN Collect([i \in 1..Len(unwrap(value.l)) |->
                            attribute_value_to_json(unwrap(value.l)[i])])
    ELSE IF is_some(value.m)
         THEN CollectMap([k \in DOMAIN unwrap(value.m) |->
                            attribute_value_to_json(unwrap(value.m)[k])])
    ELSE IF is_some(value.n) THEN ParsedOrPanic(unwrap(value.n))
    ELSE IF is_some(value.ns)
         THEN Collect([i \in 1..Len(unwrap(value.ns)) |-> ParsedOrPanic(unwrap(value.ns)[i])])
    ELSE decode_text_slots(value)

\* ------------------------------------------------ serde_json at the boundary
\* serde_json::to_value: Err for a typed value whose Serialize impl fails.
to_value(typed) ==
    IF typed.kind = "unserializable" THEN [ok |-> FALSE] ELSE [ok |-> TRUE, v |-> typed.val]

\* serde_json::from_value::<A> for A = serde_json::Value, String, HashMap<String, u32>
\* (the target types of examples/main.rs and of the doc tests).
Targets == {"Value", "String", "HashMapU32"}

from_value(v, target) ==
    CASE target = "Value" -> [ok |-> TRUE, v |-> v]
      [] target = "String" -> IF v.t = "String" THEN [ok |-> TRUE, v |-> v] ELSE [ok |-> FALSE]
      [] target = "HashMapU32" ->
            IF v.t = "Object"
               /\ \A k \in DOMAIN v.v : v.v[k].t = "Number" /\ v.v[k].k = "Int" /\ v.v[k].n >= 0
            THEN [ok |-> TRUE, v |-> v] ELSE [ok |-> FALSE]

\* ---------------------------------------------------------- the public API
to_attribute_value(typed) ==
    IF to_value(typed).ok THEN Attr(json_to_attribute_value(to_value(typed).v)) ELSE SerdeErr

from_attribute_value(value, target) ==
    LET v == attribute_value_to_json(value)
    IN  IF v.t = "Panic" THEN Aborted
        ELSE IF from_value(v, target).ok THEN Json(from_value(v, target).v) ELSE SerdeErr

json_to_attribute_value_hashmap(value) ==
    LET av == json_to_attribute_value(value)
    IN  IF is_some(av.m) THEN FieldMap(unwrap(av.m)) ELSE Aborted

to_fields(typed) ==
    IF to_value(typed).ok THEN json_to_attribute_value_hashmap(to_value(typed).v) ELSE SerdeErr

attribute_value_hashmap_to_json_map(value) ==
    LET v == attribute_value_to_json([Default EXCEPT !.m = Some(value)])
    IN  IF v.t = "Object" THEN v ELSE Panic

from_fields(value, target) ==
    LET v == attribute_value_hashmap_to_json_map(value)
    IN  IF v.t = "Panic" THEN Aborted
        ELSE IF from_value(v, target).ok THEN Json(from_value(v, target).v) ELSE SerdeErr

\* As insert, with the value a key already has kept.
insert_keepfirst(m, k, v) == [x \in (DOMAIN m) \cup {k} |-> IF x \in DOMAIN m THEN m[x] ELSE v]

\* HashMap::insert: the new value replaces the one the key had.
insert(m, k, v) == [x \in (DOMAIN m) \cup {k} |-> IF x = k THEN v ELSE m[x]]

EmptyMap == [x \in {} |-> Null]

\* fields!{ k => v, ... }: pairs is the sequence of <<key, typed value>>, inserted in
\* order; to_attribute_value(v).expect(..) panics on a serialization failure.
RECURSIVE fields_insert(_, _)
fields_insert(m, pairs) ==
    IF pairs = << >> THEN FieldMap(m)
    ELSE LET av == to_attribute_value(pairs[1][2])
         IN  IF av.kind = "err" THEN Aborted
             ELSE fields_insert(insert(m, pairs[1][1], av.val), Tail(pairs))

fields(pairs) == fields_insert(EmptyMap, pairs)

\* ------------------------------------------------------------------ inputs
Keys == {"id", "counter"}

Scalars ==
    {Null, Bool(TRUE), Bool(FALSE), NumInt(0), NumInt(-12),
     NumFloat(FALSE, 1, <<53>>), NumFloat(FALSE, 1, <<48>>),
     String(EmptyText), String(NulText), String(TextA), String(<<97, 0>>)}

\* The Generic Values of exactly n nodes, n >= 1.
RECURSIVE Values(_)
RECURSIVE SeqsOf(_)
RECURSIVE MapsOf(_)
Values(n) ==
    IF n = 1 THEN Scalars \cup {Array(<< >>), Object(EmptyMap)}
    ELSE {Array(xs) : xs \in SeqsOf(n - 1)} \cup {Object(kv) : kv \in MapsOf(n - 1)}
SeqsOf(n) ==
    IF n = 0 THEN {<< >>}
    ELSE UNION {{<<h>> \o t : h \in Values(k), t \in SeqsOf(n - k)} : k \in 1..n}
MapsOf(n) ==
    {(k :> v) : k \in Keys, v \in Values(n)}
    \cup UNION {{("id" :> v1) @@ ("counter" :> v2) : v1 \in Values(a), v2 \in Values(n - a)} :
                    a \in 1..(n - 1)}

GenericValues == UNION {Values(n) : n \in 1..MaxNodes}

\* Externally supplied AttributeValues: what each slot may hold when populated.
Leaves == {Default, [Default EXCEPT !.s = Some(TextA)], [Default EXCEPT !.ss = Some(<<TextA>>)]}

SlotValues(f) ==
    CASE f = "b" -> {<<97>>, <<255>>}
      [] f = "bool" -> {TRUE, FALSE}
      [] f = "bs" -> {<< <<97>> >>, << <<97>>, <<255>> >>}
      [] f = "l" -> {<< >>} \cup {<<x>> : x \in Leaves}
      [] f = "m" -> {EmptyMap} \cup {("id" :> x) : x \in Leaves}
      [] f = "n" -> {<<48>>, <<45, 49, 50>>, <<49, 46, 53>>, <<116, 114, 117, 101>>,
                     <<110, 117, 108, 108>>, <<34, 97, 34>>, <<120>>}
      [] f = "ns" -> {<< <<48>>, <<49, 46, 53>> >>, << <<48>>, <<116, 114, 117, 101>> >>,
                      << <<120>> >>}
      [] f = "null" -> {TRUE, FALSE}
      [] f = "s" -> {EmptyText, NulText, TextA}
      [] f = "ss" -> {<<TextA>>, <<TextA, NulText>>}

RECURSIVE Populate(_, _)
Populate(av, fs) ==
    IF fs = {} THEN {av}
    ELSE LET f == CHOOSE x \in fs : TRUE
         IN  UNION {Populate([av EXCEPT ![f] = Some(x)], fs \ {f}) : x \in SlotValues(f)}

AttributeValues ==
    UNION {Populate(Default, fs) : fs \in {x \in SUBSET Slots : Cardinality(x) <= MaxSlots}}

FieldMaps == {EmptyMap} \cup {("id" :> x) : x \in Leaves}
             \cup {("id" :> [Default EXCEPT !.l = Some(<<x>>)]) : x \in Leaves}

PairValues == {Json(String(TextTest)), Json(NumInt(0)), Json(String(EmptyText)), Unserializable}

RECURSIVE PairLists(_)
PairLists(n) ==
    IF n = 0 THEN {<< >>}
    ELSE {<< >>} \cup {<< <<k, v>> >> \o t : k \in Keys, v \in PairValues, t \in PairLists(n - 1)}

Inputs ==
    {Json(v) : v \in GenericValues} \cup {Unserializable}
    \cup {Attr(av) : av \in AttributeValues}
    \cup {FieldMap(m) : m \in FieldMaps}
    \cup {Pairs(ps) : ps \in PairLists(MaxPairs)}

\* ------------------------------------------------------------------- state
VARIABLES input, calls
vars == <<input, calls>>

\* The value the next call is applied to.
cur == IF calls = << >> THEN input ELSE calls[Len(calls)].res

Call(op, res) ==
    /\ Len(calls) < MaxCalls
    /\ calls' = Append(calls, [op |-> op, res |-> res])
    /\ UNCHANGED input

Init == input \in Inputs /\ calls = << >>

JsonToAttributeValue ==
    /\ cur.kind = "json"
    /\ Call("json_to_attribute_value", Attr(json_to_attribute_value(cur.val)))

AttributeValueToJson ==
    /\ cur.kind = "attr"
    /\ LET v == attribute_value_to_json(cur.val)
       IN  Call("attribute_value_to_json", IF v.t = "Panic" THEN Aborted ELSE Json(v))

ToAttributeValue ==
    /\ cur.kind \in {"json", "unserializable"}
    /\ Call("to_attribute_value", to_attribute_value(cur))

FromAttributeValue ==
    /\ cur.kind = "attr"
    /\ \E target \in Targets : Call("from_attribute_value", from_attribute_value(cur.val, target))

ToFields ==
    /\ cur.kind \in {"json", "unserializable"}
    /\ Call("to_fields", to_fields(cur))

FromFields ==
    /\ cur.kind = "fields"
    /\ \E target \in Targets : Call("from_fields", from_fields(cur.val, target))

FieldsMacro ==
    /\ cur.kind = "pairs"
    /\ Call("fields", fields(cur.val))

Next ==
    \/ JsonToAttributeValue
    \/ AttributeValueToJson
    \/ ToAttributeValue
    \/ FromAttributeValue
    \/ ToFields
    \/ FromFields
    \/ FieldsMacro

Spec == Init /\ [][Next]_vars

\* ------------------------------------------------------------------ claims
ArgOf(i) == IF i = 1 THEN input ELSE calls[i - 1].res
IsCall(i, op) == i \in 1..Len(calls) /\ calls[i].op = op

\* An encode immediately followed by a decode of its result.
EncDec(i) == IsCall(i, "json_to_attribute_value") /\ IsCall(i + 1, "attribute_value_to_json")

RECURSIVE HasNulString(_)
HasNulString(v) ==
    CASE v.t = "String" -> v.v = <<0>>
      [] v.t \in {"Array", "Object"} -> \E k \in DOMAIN v.v : HasNulString(v.v[k])
      [] OTHER -> FALSE

RECURSIVE ReplaceNul(_)
ReplaceNul(v) ==
    CASE v.t = "String" -> IF v.v = <<0>> THEN String(<< >>) ELSE v
      [] v.t = "Array" -> Array([i \in DOMAIN v.v |-> ReplaceNul(v.v[i])])
      [] v.t = "Object" -> Object([k \in DOMAIN v.v |-> ReplaceNul(v.v[k])])
      [] OTHER -> v

\* C1: a Generic Value with no string equal to one NUL character, encoded by
\* json_to_attribute_value and decoded by attribute_value_to_json, comes back equal:
\* the decode is defined, Array order and Object entries are those of the value.
C1_RoundTrip ==
    \A i \in 1..Len(calls) :
        EncDec(i) /\ ~HasNulString(ArgOf(i).val) => calls[i + 1].res = ArgOf(i)

C1_Witness ==
    /\ input = Json(Array(<<String(EmptyText), NumInt(-12)>>))
    /\ EncDec(1)
    /\ calls[2].res = input

\* The scanning order of the slots, as the specification gives it and as the code has it.
SpecOrder == <<"b", "bool", "bs", "l", "m", "n", "ns", "null", "s", "ss">>
CodeOrder == <<"b", "bool", "bs", "l", "m", "n", "ns", "s", "null", "ss">>

FirstPopulated(av, order) ==
    order[CHOOSE i \in 1..Len(order) :
              is_some(av[order[i]]) /\ \A j \in 1..(i - 1) : ~is_some(av[order[j]])]

\* av with every slot but f emptied.
Only(av, f) == [Default EXCEPT ![f] = av[f]]

Decoded(av) ==
    LET v == attribute_value_to_json(av) IN IF v.t = "Panic" THEN Aborted ELSE Json(v)

DecodesFirstOf(order) ==
    \A i \in 1..Len(calls) :
        IsCall(i, "attribute_value_to_json") /\ Populated(ArgOf(i).val) # {} =>
            /\ calls[i].res = Decoded(Only(ArgOf(i).val, FirstPopulated(ArgOf(i).val, order)))
            /\ (FirstPopulated(ArgOf(i).val, order) = "null" => calls[i].res = Json(Null))

\* C2 (as stated): attribute_value_to_json decodes the first populated slot in the order
\* Binary, Bool, BinarySet, List, Map, Number, NumberSet, Null marker, String, StringSet
\* and ignores the later ones; Null marker and String together decode to Null.
C2_SpecOrder == DecodesFirstOf(SpecOrder)

\* C2 (amended): the order is Binary, Bool, BinarySet, List, Map, Number, NumberSet,
\* String, Null marker, StringSet: the result is that of the value with only its first
\* populated slot in this order, and Null marker and String together (with no earlier
\* slot) decode to the String slot's text, "\0" read as the empty string.
C2_CodeOrder ==
    /\ DecodesFirstOf(CodeOrder)
    /\ \A i \in 1..Len(calls) :
          IsCall(i, "attribute_value_to_json") /\ Populated(ArgOf(i).val) = {"null", "s"} =>
             calls[i].res = Json(String(IF unwrap(ArgOf(i).val.s) = <<0>> THEN << >>
                                        ELSE unwrap(ArgOf(i).val.s)))

C2_Witness ==
    /\ input = Attr([Default EXCEPT !.null = Some(TRUE), !.s = Some(TextA)])
    /\ IsCall(1, "attribute_value_to_json")
    /\ calls[1].res = Json(String(TextA))

\* C3: an AttributeValue whose only populated slot is StringSet decodes, without
\* failing, to the Array of one String per member.
C3_StringSetDecodes ==
    \A i \in 1..Len(calls) :
        IsCall(i, "attribute_value_to_json") /\ Populated(ArgOf(i).val) = {"ss"} =>
            calls[i].res = Json(Array([j \in 1..Len(unwrap(ArgOf(i).val.ss)) |->
                                            String(unwrap(ArgOf(i).val.ss)[j])]))

\* C4: to_fields on a value whose Generic Value is not an Object returns an error
\* result: neither a mapping nor an abort.
C4_NonObjectIsError ==
    \A i \in 1..Len(calls) :
        IsCall(i, "to_fields") /\ ArgOf(i).kind = "json" /\ ArgOf(i).val.t # "Object" =>
            calls[i].res = SerdeErr

\* The decoder reaches an AttributeValue with no populated slot: av itself, or a
\* member of the List or Map it decodes.
RECURSIVE HasEmptySlot(_)
HasEmptySlot(av) ==
    \/ Populated(av) = {}
    \/ /\ Populated(av) # {}
       /\ \/ /\ FirstPopulated(av, CodeOrder) = "l"
             /\ \E j \in DOMAIN unwrap(av.l) : HasEmptySlot(unwrap(av.l)[j])
          \/ /\ FirstPopulated(av, CodeOrder) = "m"
             /\ \E k \in DOMAIN unwrap(av.m) : HasEmptySlot(unwrap(av.m)[k])

\* C5: decoding an AttributeValue with no populated slot, at the top level through
\* from_attribute_value or nested in a List or Map of a Field Map through from_fields,
\* returns a decode error to the caller and does not abort.
C5_MalformedIsError ==
    \A i \in 1..Len(calls) :
        /\ IsCall(i, "from_attribute_value") /\ Populated(ArgOf(i).val) = {} =>
              calls[i].res = SerdeErr
        /\ IsCall(i, "from_fields")
              /\ (\E k \in DOMAIN ArgOf(i).val : HasEmptySlot(ArgOf(i).val[k])) =>
              calls[i].res = SerdeErr

\* C6: json_to_attribute_value of the empty string and of the one-NUL string both give
\* the AttributeValue whose only slot is String holding one NUL character, and
\* attribute_value_to_json of it gives the empty string.
C6_Sentinel ==
    \A i \in 1..Len(calls) :
        IsCall(i, "json_to_attribute_value") /\ ArgOf(i).val \in {String(<< >>), String(<<0>>)} =>
            /\ calls[i].res = Attr([Default EXCEPT !.s = Some(<<0>>)])
            /\ (EncDec(i) => calls[i + 1].res = Json(String(<< >>)))

C6_Witness ==
    /\ input = Json(String(<<0>>))
    /\ EncDec(1)
    /\ calls[2].res = Json(String(<< >>))

SlotOf(t) ==
    CASE t = "Null" -> "null" [] t = "Bool" -> "bool" [] t = "Number" -> "n"
      [] t = "String" -> "s" [] t = "Array" -> "l" [] t = "Object" -> "m"

\* av has exactly one slot populated, the one of v's variant, and so at every depth.
RECURSIVE SingleSlot(_, _)
SingleSlot(av, v) ==
    /\ Populated(av) = {SlotOf(v.t)}
    /\ (v.t = "Null" => unwrap(av.null) = TRUE)
    /\ (v.t = "Array" =>
            /\ Len(unwrap(av.l)) = Len(v.v)
            /\ \A j \in 1..Len(v.v) : SingleSlot(unwrap(av.l)[j], v.v[j]))
    /\ (v.t = "Object" =>
            /\ DOMAIN unwrap(av.m) = DOMAIN v.v
            /\ \A k \in DOMAIN v.v : SingleSlot(unwrap(av.m)[k], v.v[k]))

\* C7: json_to_attribute_value returns an AttributeValue for every Generic Value, and
\* every AttributeValue in it, at every depth of List and Map, has exactly one slot
\* populated: that of the variant it encodes.
C7_SingleSlot ==
    \A i \in 1..Len(calls) :
        IsCall(i, "json_to_attribute_value") =>
            calls[i].res.kind = "attr" /\ SingleSlot(calls[i].res.val, ArgOf(i).val)

C7_Witness ==
    /\ input = Json(Array(<<Object("id" :> Null)>>))
    /\ IsCall(1, "json_to_attribute_value")
    /\ Populated(unwrap(unwrap(calls[1].res.val.l)[1].m)["id"]) = {"null"}

\* The Object a list of pairs builds when inserted in order, the last pair of a key
\* giving its value.
LastOf(pairs, k) ==
    pairs[CHOOSE i \in 1..Len(pairs) :
              pairs[i][1] = k /\ \A j \in (i + 1)..Len(pairs) : pairs[j][1] # k][2]
ObjectOfPairs(pairs) ==
    Object([k \in {pairs[i][1] : i \in 1..Len(pairs)} |-> LastOf(pairs, k).val])
AllSerializable(pairs) == \A i \in 1..Len(pairs) : pairs[i][2].kind = "json"

\* C8: the Field Map fields! builds from a list of pairs is the one to_fields gives for
\* the Object of the same pairs inserted in order with last-write-wins: the same keys,
\* each with the encoding of the value of the last pair carrying it.
C8_BuilderEquivalence ==
    \A i \in 1..Len(calls) :
        IsCall(i, "fields") /\ AllSerializable(ArgOf(i).val) =>
            /\ calls[i].res = to_fields(Json(ObjectOfPairs(ArgOf(i).val)))
            /\ calls[i].res.kind = "fields"
            /\ DOMAIN calls[i].res.val = {ArgOf(i).val[j][1] : j \in 1..Len(ArgOf(i).val)}
            /\ \A k \in DOMAIN calls[i].res.val :
                  calls[i].res.val[k] = json_to_attribute_value(LastOf(ArgOf(i).val, k).val)

C8_Witness ==
    /\ input = Pairs(<< <<"id", Json(String(TextTest))>>, <<"id", Json(NumInt(0))>> >>)
    /\ IsCall(1, "fields")
    /\ calls[1].res = FieldMap("id" :> [Default EXCEPT !.n = Some(<<48>>)])

\* C9: when the first populated slot is Number, attribute_value_to_json returns a
\* Generic Value of variant Number or fails, never a value of another variant; and
\* when it is NumberSet, an Array of Numbers or a failure.
C9_NumberOrFail ==
    \A i \in 1..Len(calls) :
        IsCall(i, "attribute_value_to_json") /\ Populated(ArgOf(i).val) # {} =>
            /\ FirstPopulated(ArgOf(i).val, CodeOrder) = "n" =>
                  calls[i].res = Aborted \/ calls[i].res.val.t = "Number"
            /\ FirstPopulated(ArgOf(i).val, CodeOrder) = "ns" =>
                  \/ calls[i].res = Aborted
                  \/ /\ calls[i].res.val.t = "Array"
                     /\ \A j \in DOMAIN calls[i].res.val.v : calls[i].res.val.v[j].t = "Number"

\* C10: norm(v), the decode of the encode of v, is defined for every Generic Value v and
\* is v with each one-NUL string replaced by the empty string; encoding norm(v) gives
\* the encoding of v, and norm(norm(v)) = norm(v).
C10_Normalization ==
    \A i \in 1..Len(calls) :
        EncDec(i) =>
            /\ calls[i + 1].res = Json(ReplaceNul(ArgOf(i).val))
            /\ (IsCall(i + 2, "json_to_attribute_value") => calls[i + 2].res = calls[i].res)
            /\ (EncDec(i + 2) => calls[i + 3].res = calls[i + 1].res)

C10_Witness ==
    /\ input = Json(Array(<<String(<<0>>), String(<<97, 0>>)>>))
    /\ EncDec(1) /\ EncDec(3)
    /\ calls[4].res = Json(Array(<<String(<< >>), String(<<97, 0>>)>>))

====
